---- MODULE Spec2Model ----
(***************************************************************************)
(* Model of src/sso.rs: the OpenID-Connect single-sign-on bridge.          *)
(*                                                                         *)
(* State: the provider client cache (CLIENT_CACHE), the authorization code *)
(* cache (AC_CACHE, time-to-live 10 minutes), the external nonce table     *)
(* (SsoNonce), the wall clock, and the position and locals of every        *)
(* request task.  Each await point and each access to shared state of a    *)
(* handler is one step, so that requests running on different worker       *)
(* threads interleave as the runtime lets them.                            *)
(***************************************************************************)
EXTENDS Integers, Sequences, FiniteSets, TLC

(* ------------------------------ bounds -------------------------------- *)
\* Number of calls (finished or running) in one behaviour.
MaxCalls == 4
\* The clock advances between requests, in steps of TickSecs seconds, up to
\* T0 + MaxAge.
TickSecs == 600
MaxAge == 600
\* Clock value at process start (seconds).
T0 == 1000

(* ------------------------------ domains ------------------------------- *)
\* Option<T>: None is the empty tuple, Some(x) the one-element tuple.
None == <<>>
Some(x) == <<x>>
IsSome(o) == o # None
Unwrap(o) == o[1]
Procs == {"p1", "p2"}
Codes == {"c1"}
\* Nonce values Nonce::new_random can produce, in the order it produces them.
AppNonces == <<"n1", "n2">>
\* A nonce value the application never generated.
ForeignNonce == "nx"

(* ------------------------- program constants -------------------------- *)
AC_TTL == 10 * 60
STRICT_LEEWAY == 30
DEFAULT_LEEWAY == 60
DEFAULT_REFRESH_VALIDITY == 30 * 24 * 3600

(* ------------------------------ tokens -------------------------------- *)
\* A token string as the provider sends it.  wf: it parses as a JWT whose
\* claims deserialize; sig: its RS256 signature verifies under the configured
\* key; aud, iss: its audience and issuer match the configuration; the other
\* fields are its claims (iat, nbf, email and nonce are Options).
Tok(id, wf, sig, aud, iss, iat, nbf, exp, email, nonce) ==
    [id |-> id, wf |-> wf, sig |-> sig, aud |-> aud, iss |-> iss,
     iat |-> iat, nbf |-> nbf, exp |-> exp, email |-> email, nonce |-> nonce]

\* jsonwebtoken::decode under a Validation v at time t: TRUE when it is Ok.
Validates(tok, v, t) ==
    /\ tok.wf
    /\ v.validate_signature => tok.sig
    /\ v.validate_exp => ~(tok.exp < t - v.leeway)
    /\ (v.validate_nbf /\ IsSome(tok.nbf)) => ~(Unwrap(tok.nbf) > t + v.leeway)
    /\ v.validate_aud => tok.aud
    /\ v.validate_iss => tok.iss

insecure_validation ==
    [validate_signature |-> FALSE, validate_exp |-> TRUE, validate_nbf |-> FALSE,
     validate_aud |-> TRUE, validate_iss |-> FALSE, leeway |-> DEFAULT_LEEWAY]

strict_validation ==
    [validate_signature |-> TRUE, validate_exp |-> TRUE, validate_nbf |-> TRUE,
     validate_aud |-> TRUE, validate_iss |-> TRUE, leeway |-> STRICT_LEEWAY]

\* Decoding::new: the three policies derived from one validation.
Decoding(validation) ==
    [id_validation |-> validation,
     access_validation |-> [validation EXCEPT !.validate_aud = FALSE],
     debug_validation |-> [insecure_validation EXCEPT !.validate_aud = FALSE]]

\* prepare_decoding: strict when the key file was read, insecure otherwise.
prepare_decoding(has_key) ==
    IF has_key THEN Decoding(strict_validation) ELSE Decoding(insecure_validation)

\* log_decode_debug: the signature-ignoring decode; its result is only logged.
log_decode_debug(dec, tok, t) == Validates(tok, dec.debug_validation, t)

Err(msg) == [ok |-> FALSE, err |-> msg, val |-> None]
Ok(val) == [ok |-> TRUE, err |-> "", val |-> Some(val)]

NoIdToken == "Token response did not contain an id_token"
IdTokenError == "Could not decode id token"
BasicTokenError == "Could not decode token"

\* Decoding::decode_id_token: the claims {exp, email, nonce} or an error; on
\* an error the token is first handed to log_decode_debug, whose result is
\* dropped.
decode_id_token(dec, tok, t) ==
    IF tok = None THEN Err(NoIdToken)
    ELSE IF Validates(Unwrap(tok), dec.id_validation, t) /\ IsSome(Unwrap(tok).nonce)
         THEN Ok([exp |-> Unwrap(tok).exp, email |-> Unwrap(tok).email,
                  nonce |-> Unwrap(Unwrap(tok).nonce)])
         ELSE LET logged == log_decode_debug(dec, Unwrap(tok), t)
              IN Err(IdTokenError)

\* decode_basic_token that falls back on the claims the diagnostic decode read.
decode_basic_token_debug_fallback(dec, tok, t) ==
    IF Validates(tok, dec.access_validation, t) \/ log_decode_debug(dec, tok, t)
    THEN Ok([iat |-> tok.iat, nbf |-> tok.nbf, exp |-> tok.exp])
    ELSE Err(BasicTokenError)

\* Decoding::decode_basic_token: the claims {iat, nbf, exp} or an error; on
\* an error the token is first handed to log_decode_debug, whose result is
\* dropped.
decode_basic_token(dec, tok, t) ==
    IF Validates(tok, dec.access_validation, t)
    THEN Ok([iat |-> tok.iat, nbf |-> tok.nbf, exp |-> tok.exp])
    ELSE LET logged == log_decode_debug(dec, tok, t)
         IN Err(BasicTokenError)

\* nbf() with the two claims taken in the other order.
PayloadNbf_iat_first(payload, t) ==
    IF IsSome(payload.iat) THEN Unwrap(payload.iat)
    ELSE IF IsSome(payload.nbf) THEN Unwrap(payload.nbf)
    ELSE t

\* BasicTokenPayload::nbf: self.nbf.or(self.iat).unwrap_or_else(now).
PayloadNbf(payload, t) ==
    IF IsSome(payload.nbf) THEN Unwrap(payload.nbf)
    ELSE IF IsSome(payload.iat) THEN Unwrap(payload.iat)
    ELSE t

\* create_auth_tokens with the refresh token decoded as the access token is,
\* with `?`: its decode error ends the operation.
create_auth_tokens_strict(dec, device_token, refresh_token, access_token, t) ==
    LET r == IF refresh_token = None THEN Ok([exp |-> 0])
             ELSE decode_basic_token(dec, Unwrap(refresh_token), t)
        a == decode_basic_token(dec, access_token, t)
    IN IF ~r.ok THEN Err(r.err)
       ELSE IF ~a.ok THEN Err(a.err)
       ELSE Ok([refresh_claims |->
                    IF refresh_token = None THEN None
                    ELSE Some([nbf |-> PayloadNbf(Unwrap(r.val), t),
                               exp |-> Unwrap(r.val).exp, sub |-> "Sso",
                               device_token |-> device_token,
                               refresh_token |-> refresh_token]),
                access_claims |-> [nbf |-> PayloadNbf(Unwrap(a.val), t),
                                   exp |-> Unwrap(a.val).exp, scope |-> "Sso"]])

\* create_auth_tokens: refresh claims (None without a refresh token) and
\* access claims, or the access token's decode error.
create_auth_tokens(dec, device_token, refresh_token, access_token, t) ==
    LET refresh_claims ==
            IF refresh_token = None THEN None
            ELSE LET rt == Unwrap(refresh_token)
                     d == decode_basic_token(dec, rt, t)
                     nbf == IF d.ok THEN PayloadNbf(Unwrap(d.val), t) ELSE t
                     exp == IF d.ok THEN Unwrap(d.val).exp
                            ELSE t + DEFAULT_REFRESH_VALIDITY
                 IN Some([nbf |-> nbf, exp |-> exp, sub |-> "Sso",
                          device_token |-> device_token, refresh_token |-> Some(rt)])
        a == decode_basic_token(dec, access_token, t)
    IN IF ~a.ok THEN Err(a.err)
       ELSE Ok([refresh_claims |-> refresh_claims,
                access_claims |-> [nbf |-> PayloadNbf(Unwrap(a.val), t),
                                   exp |-> Unwrap(a.val).exp, scope |-> "Sso"]])

\* The rolled token without the rotation: the stored token is kept.
rolled_refresh_token_kept(response_rt, refresh_token) == refresh_token

\* Use new refresh_token if returned (exchange_refresh_token, lines 375-376).
rolled_refresh_token(response_rt, refresh_token) ==
    IF IsSome(response_rt) THEN Unwrap(response_rt) ELSE refresh_token

(* ------------------------- what the provider sends -------------------- *)
\* Nonces generated so far by authorize_url (Nonce::new_random yields a value
\* never seen before: the next unused element of AppNonces).
Generated(n) == {AppNonces[i] : i \in 1..n}

AccessJwt == Tok("at", TRUE, TRUE, TRUE, TRUE, None, None, T0 + 3600, None, None)
AccessOpaque == Tok("at-opaque", FALSE, FALSE, FALSE, FALSE, None, None, 0, None, None)
RefreshOpaque(id) == Tok(id, FALSE, FALSE, FALSE, FALSE, None, None, 0, None, None)
RefreshJwt == Tok("rt-jwt", TRUE, TRUE, TRUE, TRUE, Some(T0 - 10), None, T0 + 7200, None, None)

\* Identity tokens a provider can answer with: an echo of a nonce, with or
\* without an email, or a string that is no JWT.
ProviderIdTokens(nonces) ==
    {Tok("id", TRUE, TRUE, TRUE, TRUE, None, None, T0 + 3600, email, Some(n)) :
        email \in {None, Some("a@id")}, n \in nonces}
    \cup {Tok("id-garbled", FALSE, FALSE, FALSE, FALSE, None, None, 0, None, None)}

\* Token endpoint answers to an authorization-code grant.
CodeResponses(nonces) ==
    [id_token : {None} \cup {Some(t) : t \in ProviderIdTokens(nonces)},
     access_token : {AccessJwt},
     refresh_token : {Some(RefreshOpaque("rt1"))}]

\* Token endpoint answers to a refresh-token grant.
RefreshResponses ==
    [access_token : {AccessJwt, AccessOpaque},
     refresh_token : {None, Some(RefreshOpaque("rt2")), Some(RefreshJwt)}]

\* Userinfo endpoint answers.
UserInfos ==
    {[email |-> None, preferred_username |-> None],
     [email |-> None, preferred_username |-> Some("alice")],
     [email |-> Some("a@ui"), preferred_username |-> Some("alice")]}

(* ------------------------------- state -------------------------------- *)
VARIABLES
    CLIENT_CACHE,        \* Option<CoreClient>
    AC_CACHE,            \* code -> Option<[val: AuthenticatedUser, inserted: time]>
    sso_nonces,          \* the rows of the SsoNonce table (nonce values)
    SSO_JWT_VALIDATION,  \* the Decoding built at startup
    now,                 \* wall clock, seconds
    generated,           \* how many nonces Nonce::new_random has produced
    pc,                  \* position of each request task
    call,                \* the call each task runs: operation and arguments
    loc,                 \* its Rust locals
    did,                 \* what the call has done so far
    last,                \* the call that returned last
    prev,                \* the call that returned before it
    calls,               \* number of calls begun
    discoveries,         \* number of discovery requests sent
    issued,              \* nonces saved by authorize_url calls that returned a URL
    deletions,           \* nonce -> number of times its row was deleted
    redeemed,            \* nonce -> number of redeem calls that returned it
    observed,            \* code -> number of redeem calls that got its entry
    handed,              \* code -> number of redeem calls that returned its entry
    logging              \* whether returning calls are recorded in last and prev

shared == <<CLIENT_CACHE, AC_CACHE, sso_nonces, SSO_JWT_VALIDATION, now, generated>>
counters == <<discoveries, issued, deletions, redeemed, observed, handed>>
vars == <<CLIENT_CACHE, AC_CACHE, sso_nonces, SSO_JWT_VALIDATION, now, generated,
          pc, call, loc, did, last, prev, calls, discoveries, issued, deletions, redeemed,
          observed, handed, logging>>

AllNonces == Generated(Len(AppNonces)) \cup {ForeignNonce}

NoArgs == [refresh_token |-> None, access_token |-> None, id_token |-> None]
NoCall == [op |-> "none", code |-> "", arg |-> NoArgs]
NoLoc == [client |-> None, au |-> None, tr |-> None]

\* What a call did: requests sent, the nonce it saved or deleted, whether its
\* AC_CACHE lookup hit, the AC_CACHE entry it read or inserted, what it read
\* from CLIENT_CACHE and how often it called cached_client, the emails of the
\* identity token and of userinfo it chose from, whether it found the nonce,
\* the refresh token the provider answered with.
NoDid ==
    [hit |-> FALSE, entry |-> None, client_calls |-> 0, cc_seen |-> FALSE,
     discovery |-> 0, token_reqs |-> 0, userinfo_reqs |-> 0, emails |-> None,
     saved |-> None, deleted |-> None, found |-> FALSE, response_rt |-> None]

NoRecord == [op |-> "none", code |-> "", arg |-> NoArgs, res |-> Err(""), did |-> NoDid,
             returned |-> 0]

\* The process has just started: its caches are empty; the SsoNonce table is
\* in the database and may hold a nonce that an authorize_url call saved
\* before the restart.
Started ==
    /\ CLIENT_CACHE = None
    /\ AC_CACHE = [c \in Codes |-> None]
    /\ generated \in {0, 1}
    /\ sso_nonces = Generated(generated)
    /\ now = T0
    /\ pc = [p \in Procs |-> "idle"]
    /\ call = [p \in Procs |-> NoCall]
    /\ loc = [p \in Procs |-> NoLoc]
    /\ did = [p \in Procs |-> NoDid]
    /\ last = NoRecord
    /\ prev = NoRecord
    /\ calls = 0
    /\ discoveries = 0
    /\ issued = sso_nonces
    /\ deletions = [n \in AllNonces |-> 0]
    /\ redeemed = [n \in AllNonces |-> 0]
    /\ observed = [c \in Codes |-> 0]
    /\ handed = [c \in Codes |-> 0]

\* Requests served one after the other are served by a single task.
Server == CHOOSE p \in Procs : TRUE

\* The server with its request tasks running concurrently.
Init == Started /\ SSO_JWT_VALIDATION = prepare_decoding(TRUE) /\ logging = FALSE

\* The server taking one request at a time, each call recorded as it returns.
SeqInit == Started /\ SSO_JWT_VALIDATION = prepare_decoding(TRUE) /\ logging = TRUE

(* ---------------------------- AC_CACHE -------------------------------- *)
\* A cache built without time_to_live: entries stay until invalidated.
Expired_never(entry, t) == FALSE

\* An entry is expired once its time-to-live has elapsed since insertion.
Expired(entry, t) == entry.inserted + AC_TTL <= t

\* AC_CACHE.get(code)
CacheGet(code) ==
    IF IsSome(AC_CACHE[code]) /\ ~Expired(Unwrap(AC_CACHE[code]), now)
    THEN Some(Unwrap(AC_CACHE[code]).val)
    ELSE None

\* AC_CACHE.insert(code, au)
CacheInsert(code, au) ==
    [AC_CACHE EXCEPT ![code] = Some([val |-> au, inserted |-> now])]

\* AC_CACHE.invalidate(code)
CacheInvalidate(code) == [AC_CACHE EXCEPT ![code] = None]

(* ----------------------------- call frame ----------------------------- *)
Running == {p \in Procs : pc[p] # "idle"}

\* A task returns: the call, its result and what it did become `last`.
Return(p, d, result) ==
    /\ pc' = [pc EXCEPT ![p] = "idle"]
    /\ loc' = [loc EXCEPT ![p] = NoLoc]
    /\ did' = [did EXCEPT ![p] = NoDid]
    /\ call' = [call EXCEPT ![p] = NoCall]
    /\ IF logging
       THEN /\ prev' = last
            /\ last' = [op |-> call[p].op, code |-> call[p].code,
                        arg |-> call[p].arg, res |-> result, did |-> d,
                        returned |-> now]
       ELSE UNCHANGED <<last, prev>>
    /\ UNCHANGED <<calls, logging>>

\* A task moves on to its next step.
Goto(p, l, d, label) ==
    /\ pc' = [pc EXCEPT ![p] = label]
    /\ loc' = [loc EXCEPT ![p] = l]
    /\ did' = [did EXCEPT ![p] = d]
    /\ UNCHANGED <<call, last, prev, calls, logging>>

UserInformation(au) == [email |-> au.email, user_name |-> au.user_name]

\* A request arrives and a task starts running one of the four operations.
Begin(p, op, code, rt, label) ==
    /\ pc[p] = "idle"
    /\ calls < MaxCalls
    /\ calls' = calls + 1
    /\ pc' = [pc EXCEPT ![p] = label]
    /\ call' = [call EXCEPT ![p] = [op |-> op, code |-> code,
                                    arg |-> [NoArgs EXCEPT !.refresh_token = rt]]]
    /\ UNCHANGED <<shared, counters, loc, did, last, prev, logging>>

(* ------------------------------ requests ------------------------------ *)
\* authorize_url is limited to the nonce values the model has.
AuthorizesBegun == generated + Cardinality({q \in Procs : call[q].op = "authorize_url"})

call_authorize_url(p) ==
    /\ AuthorizesBegun < Len(AppNonces)
    /\ Begin(p, "authorize_url", "", None, "cached_client")

call_exchange_code(p) ==
    \E code \in Codes : Begin(p, "exchange_code", code, None, "exchange_code")

call_redeem(p) ==
    \E code \in Codes : Begin(p, "redeem", code, None, "redeem")

call_exchange_refresh_token(p) ==
    \E rt \in {None, Some(RefreshOpaque("rt1"))} :
        Begin(p, "exchange_refresh_token", "", rt, "exchange_refresh_token")

(* ---------------------------- cached_client --------------------------- *)
\* Where a caller of cached_client continues once it has the client.
AfterClient(op) ==
    CASE op = "authorize_url" -> "authorize_url"
      [] op = "exchange_code" -> "token_request"
      [] op = "exchange_refresh_token" -> "refresh_request"

\* cached_client that goes to discovery whatever CLIENT_CACHE holds.
cached_client_rediscovers(p) ==
    /\ pc[p] = "cached_client"
    /\ Goto(p, loc[p], [did[p] EXCEPT !.cc_seen = IsSome(CLIENT_CACHE),
                                      !.client_calls = @ + 1], "get_client")
    /\ UNCHANGED <<shared, counters>>

\* Lines 59-61: read CLIENT_CACHE; a populated cache is returned as it is.
cached_client(p) ==
    /\ pc[p] = "cached_client"
    /\ LET d == [did[p] EXCEPT !.cc_seen = IsSome(CLIENT_CACHE), !.client_calls = @ + 1]
       IN IF IsSome(CLIENT_CACHE)
          THEN Goto(p, [loc[p] EXCEPT !.client = CLIENT_CACHE], d, AfterClient(call[p].op))
          ELSE Goto(p, loc[p], d, "get_client")
    /\ UNCHANGED <<shared, counters>>

\* get_client: the discovery request succeeds.
get_client_ok(p) ==
    /\ pc[p] = "get_client"
    /\ discoveries' = discoveries + 1
    /\ Goto(p, [loc[p] EXCEPT !.client = Some("CoreClient")],
            [did[p] EXCEPT !.discovery = did[p].discovery + 1], "write_client")
    /\ UNCHANGED <<shared, issued, deletions, redeemed, observed, handed>>

\* cached_client that stores the outcome of a failed discovery.
get_client_err_cached(p) ==
    /\ pc[p] = "get_client"
    /\ discoveries' = discoveries + 1
    /\ CLIENT_CACHE' = Some("failed")
    /\ Return(p, [did[p] EXCEPT !.discovery = did[p].discovery + 1],
              Err("Failed to discover OpenID provider"))
    /\ UNCHANGED <<AC_CACHE, sso_nonces, SSO_JWT_VALIDATION, now, generated,
                   issued, deletions, redeemed, observed, handed>>

\* cached_client that empties the cache when discovery fails.
get_client_err_clears(p) ==
    /\ pc[p] = "get_client"
    /\ discoveries' = discoveries + 1
    /\ CLIENT_CACHE' = None
    /\ Return(p, [did[p] EXCEPT !.discovery = did[p].discovery + 1],
              Err("Failed to discover OpenID provider"))
    /\ UNCHANGED <<AC_CACHE, sso_nonces, SSO_JWT_VALIDATION, now, generated,
                   issued, deletions, redeemed, observed, handed>>

\* get_client: the discovery request fails; cached_client returns the error.
get_client_err(p) ==
    /\ pc[p] = "get_client"
    /\ discoveries' = discoveries + 1
    /\ Return(p, [did[p] EXCEPT !.discovery = did[p].discovery + 1],
              Err("Failed to discover OpenID provider"))
    /\ UNCHANGED <<shared, issued, deletions, redeemed, observed, handed>>

\* Lines 62-66: the discovered client is written to CLIENT_CACHE.
write_client(p) ==
    /\ pc[p] = "write_client"
    /\ CLIENT_CACHE' = loc[p].client
    /\ Goto(p, loc[p], did[p], AfterClient(call[p].op))
    /\ UNCHANGED <<AC_CACHE, sso_nonces, SSO_JWT_VALIDATION, now, generated, counters>>

(* ------------------------- SsoNonce (db model) ------------------------ *)
\* save inserts a row keyed by the nonce value; find returns the row with
\* that value if there is one; delete removes the rows with that value.
SsoNonce_save(nonce) == sso_nonces \cup {nonce}
SsoNonce_find(nonce) == nonce \in sso_nonces
SsoNonce_delete(nonce) == sso_nonces \ {nonce}

(* ---------------------------- authorize_url --------------------------- *)
\* Lines 74-87: build the URL with a fresh nonce, save the nonce, return.
authorize_url_saved(p) ==
    /\ pc[p] = "authorize_url"
    /\ LET nonce == AppNonces[generated + 1]
       IN /\ generated' = generated + 1
          /\ sso_nonces' = SsoNonce_save(nonce)
          /\ issued' = issued \cup {nonce}
          /\ Return(p, [did[p] EXCEPT !.saved = Some(nonce)],
                    Ok([state |-> "state", nonce |-> nonce]))
    /\ UNCHANGED <<CLIENT_CACHE, AC_CACHE, SSO_JWT_VALIDATION, now,
                   discoveries, deletions, redeemed, observed, handed>>

\* authorize_url with the result of save dropped: the URL is returned though
\* no nonce was recorded.
authorize_url_save_ignored(p) ==
    /\ pc[p] = "authorize_url"
    /\ generated' = generated + 1
    /\ Return(p, did[p], Ok([state |-> "state", nonce |-> AppNonces[generated + 1]]))
    /\ UNCHANGED <<CLIENT_CACHE, AC_CACHE, sso_nonces, SSO_JWT_VALIDATION, now, counters>>

\* Line 85: sso_nonce.save fails and the error is returned.
authorize_url_save_err(p) ==
    /\ pc[p] = "authorize_url"
    /\ generated' = generated + 1
    /\ Return(p, did[p], Err("Error saving SSO nonce"))
    /\ UNCHANGED <<CLIENT_CACHE, AC_CACHE, sso_nonces, SSO_JWT_VALIDATION, now, counters>>

(* ---------------------------- exchange_code --------------------------- *)
\* exchange_code without its lookup in AC_CACHE: every call asks the provider.
exchange_code_uncached(p) ==
    /\ pc[p] = "exchange_code"
    /\ Goto(p, loc[p], did[p], "cached_client")
    /\ UNCHANGED <<shared, counters>>

\* exchange_code that takes the entry out of AC_CACHE when it answers from it.
exchange_code_get_consumes(p) ==
    /\ pc[p] = "exchange_code"
    /\ LET cached == CacheGet(call[p].code)
           d == [did[p] EXCEPT !.hit = IsSome(cached),
                               !.entry = IF IsSome(cached) THEN AC_CACHE[call[p].code]
                                         ELSE None]
       IN IF IsSome(cached)
          THEN /\ AC_CACHE' = CacheInvalidate(call[p].code)
               /\ Return(p, d, Ok(UserInformation(Unwrap(cached))))
          ELSE /\ UNCHANGED AC_CACHE
               /\ Goto(p, loc[p], d, "cached_client")
    /\ UNCHANGED <<CLIENT_CACHE, sso_nonces, SSO_JWT_VALIDATION, now, generated, counters>>

\* Lines 238-243: a cached code is answered from AC_CACHE.
exchange_code_get(p) ==
    /\ pc[p] = "exchange_code"
    /\ LET cached == CacheGet(call[p].code)
           d == [did[p] EXCEPT !.hit = IsSome(cached),
                               !.entry = IF IsSome(cached) THEN AC_CACHE[call[p].code]
                                         ELSE None]
       IN IF IsSome(cached)
          THEN Return(p, d, Ok(UserInformation(Unwrap(cached))))
          ELSE Goto(p, loc[p], d, "cached_client")
    /\ UNCHANGED <<shared, counters>>

\* Line 248: the token endpoint answers the authorization-code grant.
token_request_ok(p) ==
    /\ pc[p] = "token_request"
    /\ \E tr \in CodeResponses(Generated(generated) \cup {ForeignNonce}) :
          Goto(p, [loc[p] EXCEPT !.tr = Some(tr)],
               [did[p] EXCEPT !.token_reqs = did[p].token_reqs + 1], "user_info")
    /\ UNCHANGED <<shared, counters>>

\* Line 292: the token endpoint refuses or cannot be reached.
token_request_err(p) ==
    /\ pc[p] = "token_request"
    /\ Return(p, [did[p] EXCEPT !.token_reqs = did[p].token_reqs + 1],
              Err("Failed to contact token endpoint"))
    /\ UNCHANGED <<shared, counters>>

\* exchange_code that caches what the token response gave before it asks
\* userinfo: a failed userinfo request leaves a partial identity in AC_CACHE.
user_info_err_cached(p) ==
    /\ pc[p] = "user_info"
    /\ AC_CACHE' = CacheInsert(call[p].code,
                               [nonce |-> ForeignNonce,
                                refresh_token |-> Unwrap(loc[p].tr).refresh_token,
                                access_token |-> Unwrap(loc[p].tr).access_token,
                                email |-> "", user_name |-> None])
    /\ Return(p, [did[p] EXCEPT !.userinfo_reqs = did[p].userinfo_reqs + 1],
              Err("Request to user_info endpoint failed"))
    /\ UNCHANGED <<CLIENT_CACHE, sso_nonces, SSO_JWT_VALIDATION, now, generated, counters>>

\* Lines 250-258: no userinfo endpoint, or the userinfo request fails.
user_info_err(p) ==
    /\ pc[p] = "user_info"
    /\ \/ Return(p, did[p], Err("No user_info endpoint"))
       \/ Return(p, [did[p] EXCEPT !.userinfo_reqs = did[p].userinfo_reqs + 1],
                 Err("Request to user_info endpoint failed"))
    /\ UNCHANGED <<shared, counters>>

\* Line 265.
NoEmail == "Neither id token nor userinfo contained an email"

\* The email taken from userinfo before the identity token.
ResolveEmail_userinfo_first(id_token, user_info) ==
    IF IsSome(user_info.email) THEN user_info.email ELSE id_token.email

\* Lines 262-268: the email of the identity token, else that of userinfo.
ResolveEmail(id_token, user_info) ==
    IF IsSome(id_token.email) THEN id_token.email ELSE user_info.email

\* Lines 277-283.
AuthenticatedUser(id_token, email, user_info, tr) ==
    [nonce |-> id_token.nonce,
     refresh_token |-> tr.refresh_token,
     access_token |-> tr.access_token,
     email |-> email,
     user_name |-> user_info.preferred_username]

\* Lines 255-290: userinfo answers; the identity token is decoded, the email
\* resolved, the AuthenticatedUser cached under the code.
user_info_ok(p) ==
    /\ pc[p] = "user_info"
    /\ \E user_info \in UserInfos :
        LET tr == Unwrap(loc[p].tr)
            d == [did[p] EXCEPT !.userinfo_reqs = did[p].userinfo_reqs + 1]
            id_token == decode_id_token(SSO_JWT_VALIDATION, tr.id_token, now)
            email == IF id_token.ok THEN ResolveEmail(Unwrap(id_token.val), user_info)
                     ELSE None
            de == [d EXCEPT !.emails = Some([id_token |-> Unwrap(id_token.val).email,
                                             user_info |-> user_info.email])]
        IN IF ~id_token.ok
           THEN Return(p, d, Err(id_token.err)) /\ UNCHANGED <<AC_CACHE, observed, handed>>
           ELSE IF email = None
           THEN /\ Return(p, de, Err(NoEmail))
                /\ UNCHANGED <<AC_CACHE, observed, handed>>
           ELSE LET au == AuthenticatedUser(Unwrap(id_token.val), Unwrap(email),
                                            user_info, tr)
                IN /\ AC_CACHE' = CacheInsert(call[p].code, au)
                   /\ observed' = [observed EXCEPT ![call[p].code] = 0]
                   /\ handed' = [handed EXCEPT ![call[p].code] = 0]
                   /\ Return(p, [de EXCEPT !.entry = AC_CACHE'[call[p].code]],
                             Ok(UserInformation(au)))
    /\ UNCHANGED <<CLIENT_CACHE, sso_nonces, SSO_JWT_VALIDATION, now, generated,
                   discoveries, issued, deletions, redeemed>>

(* ------------------------------- redeem ------------------------------- *)
\* Line 298: AC_CACHE.get(code); a miss is the not-found error (line 310).
redeem_get(p) ==
    /\ pc[p] = "redeem"
    /\ LET cached == CacheGet(call[p].code)
           d == [did[p] EXCEPT !.hit = IsSome(cached),
                               !.entry = IF IsSome(cached) THEN AC_CACHE[call[p].code]
                                         ELSE None]
       IN IF IsSome(cached)
          THEN /\ Goto(p, [loc[p] EXCEPT !.au = cached], d, "invalidate")
               /\ observed' = [observed EXCEPT ![call[p].code] = @ + 1]
          ELSE /\ Return(p, d, Err("Failed to retrieve user info from sso cache"))
               /\ UNCHANGED observed
    /\ UNCHANGED <<shared, discoveries, issued, deletions, redeemed, handed>>

\* redeem without line 299: the entry stays in AC_CACHE.
redeem_not_invalidated(p) ==
    /\ pc[p] = "invalidate"
    /\ Goto(p, loc[p], did[p], "find_nonce")
    /\ UNCHANGED <<shared, counters>>

\* Line 299: AC_CACHE.invalidate(code).
redeem_invalidate(p) ==
    /\ pc[p] = "invalidate"
    /\ AC_CACHE' = CacheInvalidate(call[p].code)
    /\ Goto(p, loc[p], did[p], "find_nonce")
    /\ UNCHANGED <<CLIENT_CACHE, sso_nonces, SSO_JWT_VALIDATION, now, generated, counters>>

\* redeem without the check of line 301: a missing nonce is not an error.
redeem_find_skipped(p) ==
    /\ pc[p] = "find_nonce"
    /\ Goto(p, loc[p], [did[p] EXCEPT !.found = SsoNonce_find(Unwrap(loc[p].au).nonce)],
            "delete_nonce")
    /\ UNCHANGED <<shared, counters>>

\* redeem that puts the entry back when the nonce is missing, for a retry.
redeem_find_restores(p) ==
    /\ pc[p] = "find_nonce"
    /\ IF SsoNonce_find(Unwrap(loc[p].au).nonce)
       THEN Goto(p, loc[p], [did[p] EXCEPT !.found = TRUE], "delete_nonce")
            /\ UNCHANGED AC_CACHE
       ELSE /\ AC_CACHE' = CacheInsert(call[p].code, Unwrap(loc[p].au))
            /\ Return(p, did[p], Err("Failed to retrive nonce from db"))
    /\ UNCHANGED <<CLIENT_CACHE, sso_nonces, SSO_JWT_VALIDATION, now, generated, counters>>

\* Lines 301, 307: SsoNonce::find(&au.nonce).
redeem_find(p) ==
    /\ pc[p] = "find_nonce"
    /\ IF SsoNonce_find(Unwrap(loc[p].au).nonce)
       THEN Goto(p, loc[p], [did[p] EXCEPT !.found = TRUE], "delete_nonce")
       ELSE Return(p, did[p], Err("Failed to retrive nonce from db"))
    /\ UNCHANGED <<shared, counters>>

\* redeem that returns the user once the nonce was found, leaving its record.
redeem_delete_kept(p) ==
    /\ pc[p] = "delete_nonce"
    /\ redeemed' = [redeemed EXCEPT ![Unwrap(loc[p].au).nonce] = @ + 1]
    /\ handed' = [handed EXCEPT ![call[p].code] = @ + 1]
    /\ Return(p, did[p], Ok(Unwrap(loc[p].au)))
    /\ UNCHANGED <<shared, discoveries, issued, deletions, observed>>

\* Lines 302, 304: sso_nonce.delete succeeds and the user is returned.
redeem_delete_ok(p) ==
    /\ pc[p] = "delete_nonce"
    /\ LET au == Unwrap(loc[p].au)
           row == au.nonce \in sso_nonces
       IN /\ sso_nonces' = SsoNonce_delete(au.nonce)
          /\ deletions' = [deletions EXCEPT ![au.nonce] = IF row THEN @ + 1 ELSE @]
          /\ redeemed' = [redeemed EXCEPT ![au.nonce] = @ + 1]
          /\ handed' = [handed EXCEPT ![call[p].code] = @ + 1]
          /\ Return(p, [did[p] EXCEPT !.deleted = IF row THEN Some(au.nonce) ELSE None],
                    Ok(au))
    /\ UNCHANGED <<CLIENT_CACHE, AC_CACHE, SSO_JWT_VALIDATION, now, generated,
                   discoveries, issued, observed>>

\* redeem with the result of delete dropped: the user is returned though the
\* nonce record is still there.
redeem_delete_err_released(p) ==
    /\ pc[p] = "delete_nonce"
    /\ redeemed' = [redeemed EXCEPT ![Unwrap(loc[p].au).nonce] = @ + 1]
    /\ handed' = [handed EXCEPT ![call[p].code] = @ + 1]
    /\ Return(p, did[p], Ok(Unwrap(loc[p].au)))
    /\ UNCHANGED <<shared, discoveries, issued, deletions, observed>>

\* Line 303: sso_nonce.delete fails.
redeem_delete_err(p) ==
    /\ pc[p] = "delete_nonce"
    /\ Return(p, did[p], Err("Failed to delete nonce"))
    /\ UNCHANGED <<shared, counters>>

(* ----------------------- exchange_refresh_token ----------------------- *)
\* Line 380.
RefreshTokenMissing == "Impossible to retrieve new access token, refresh_token is missing"
\* Line 370.
RefreshFailed == "Request to exchange_refresh_token endpoint failed"

\* exchange_refresh_token that sends the refresh grant whatever the claims
\* carry: without a refresh token the provider refuses it.
exchange_refresh_token_check_sends(p) ==
    /\ pc[p] = "exchange_refresh_token"
    /\ IF IsSome(call[p].arg.refresh_token)
       THEN Goto(p, loc[p], did[p], "cached_client")
       ELSE Return(p, [did[p] EXCEPT !.token_reqs = did[p].token_reqs + 1],
                   Err(RefreshFailed))
    /\ UNCHANGED <<shared, counters>>

\* Lines 364, 380: the claims must carry a provider refresh token.
exchange_refresh_token_check(p) ==
    /\ pc[p] = "exchange_refresh_token"
    /\ IF IsSome(call[p].arg.refresh_token)
       THEN Goto(p, loc[p], did[p], "cached_client")
       ELSE Return(p, did[p], Err(RefreshTokenMissing))
    /\ UNCHANGED <<shared, counters>>

\* Lines 369-378: the refresh grant is answered; the claims are rebuilt.
refresh_request_ok(p) ==
    /\ pc[p] = "refresh_request"
    /\ \E tr \in RefreshResponses :
          Return(p, [did[p] EXCEPT !.token_reqs = did[p].token_reqs + 1,
                                   !.response_rt = tr.refresh_token],
                 create_auth_tokens(SSO_JWT_VALIDATION, "device",
                     Some(rolled_refresh_token(tr.refresh_token, Unwrap(call[p].arg.refresh_token))),
                     tr.access_token, now))
    /\ UNCHANGED <<shared, counters>>

\* Line 370: the refresh grant fails.
refresh_request_err(p) ==
    /\ pc[p] = "refresh_request"
    /\ Return(p, [did[p] EXCEPT !.token_reqs = did[p].token_reqs + 1],
              Err(RefreshFailed))
    /\ UNCHANGED <<shared, counters>>

(* -------------------------------- clock ------------------------------- *)
\* A request lasts seconds and the time to live minutes: the clock is advanced
\* between requests.
Tick ==
    /\ Running = {}
    /\ now + TickSecs <= T0 + MaxAge
    /\ now' = now + TickSecs
    /\ UNCHANGED <<CLIENT_CACHE, AC_CACHE, sso_nonces, SSO_JWT_VALIDATION, generated,
                   pc, call, loc, did, last, prev, calls, counters, logging>>

(* --------------------------- specifications --------------------------- *)
Step(p) ==
    \/ call_authorize_url(p)
    \/ call_exchange_code(p)
    \/ call_redeem(p)
    \/ call_exchange_refresh_token(p)
    \/ cached_client(p)
    \/ get_client_ok(p)
    \/ get_client_err(p)
    \/ write_client(p)
    \/ authorize_url_saved(p)
    \/ authorize_url_save_err(p)
    \/ exchange_code_get(p)
    \/ token_request_ok(p)
    \/ token_request_err(p)
    \/ user_info_err(p)
    \/ user_info_ok(p)
    \/ redeem_get(p)
    \/ redeem_invalidate(p)
    \/ redeem_find(p)
    \/ redeem_delete_ok(p)
    \/ redeem_delete_err(p)
    \/ exchange_refresh_token_check(p)
    \/ refresh_request_ok(p)
    \/ refresh_request_err(p)

\* Requests served by concurrent tasks.
Next == (\E p \in Procs : Step(p)) \/ Tick

Spec == Init /\ [][Next]_vars

\* Requests served one after the other.
SeqNext == Step(Server) \/ Tick

SeqSpec == SeqInit /\ [][SeqNext]_vars

\* Spec with the scheduling the runtime guarantees: a task that holds a
\* discovered client gets to take the write lock and store it.
FairSpec == Spec /\ \A p \in Procs : WF_vars(write_client(p))

(* ------------- create_auth_tokens and decoding on their own ------------- *)
\* Access and refresh token strings: JWTs with every combination of iat and
\* nbf, expired or not, well signed or not, and strings that are no JWT.
BasicTokens ==
    {Tok("token", wf, sig, FALSE, iss, iat, nbf, exp, None, None) :
        wf \in BOOLEAN, sig \in BOOLEAN, iss \in BOOLEAN,
        iat \in {None, Some(T0 - 20)},
        nbf \in {None, Some(T0 - 10), Some(T0 + 5000)},
        exp \in {T0 - 100, T0 + 3600}}

\* Identity token strings: JWTs well signed or not, for this client and issuer
\* or not, expired or not, with or without email and nonce, and strings that
\* are no JWT.
IdTokens ==
    {Tok("token", wf, sig, aud, iss, None, nbf, exp, email, nonce) :
        wf \in BOOLEAN, sig \in BOOLEAN, aud \in BOOLEAN, iss \in BOOLEAN,
        nbf \in {None, Some(T0 + 5000)},
        exp \in {T0 - 100, T0 + 3600},
        email \in {None, Some("a@id")},
        nonce \in {None, Some(AppNonces[1])}}

\* The server started with or without a key file, at some time of day; a
\* caller (login, or exchange_refresh_token) is about to build session claims,
\* or exchange_code is about to decode the identity token of a token response.
TokInit ==
    /\ CLIENT_CACHE = None
    /\ AC_CACHE = [c \in Codes |-> None]
    /\ generated = 0
    /\ sso_nonces = {}
    /\ now \in {T0, T0 + TickSecs}
    /\ SSO_JWT_VALIDATION \in {prepare_decoding(has_key) : has_key \in BOOLEAN}
    /\ logging = TRUE
    /\ \/ /\ pc = [p \in Procs |-> IF p = Server THEN "create_auth_tokens" ELSE "idle"]
          /\ \E refresh_token \in {None} \cup {Some(t) : t \in BasicTokens},
                access_token \in BasicTokens :
                call = [p \in Procs |->
                          IF p = Server
                          THEN [op |-> "create_auth_tokens", code |-> "",
                                arg |-> [refresh_token |-> refresh_token,
                                         access_token |-> Some(access_token),
                                         id_token |-> None]]
                          ELSE NoCall]
       \/ /\ pc = [p \in Procs |-> IF p = Server THEN "decode_id_token" ELSE "idle"]
          /\ \E id_token \in {None} \cup {Some(t) : t \in IdTokens} :
                call = [p \in Procs |->
                          IF p = Server
                          THEN [op |-> "decode_id_token", code |-> "",
                                arg |-> [NoArgs EXCEPT !.id_token = id_token]]
                          ELSE NoCall]
    /\ loc = [p \in Procs |-> NoLoc]
    /\ did = [p \in Procs |-> NoDid]
    /\ last = NoRecord
    /\ prev = NoRecord
    /\ calls = 1
    /\ discoveries = 0
    /\ issued = sso_nonces
    /\ deletions = [n \in AllNonces |-> 0]
    /\ redeemed = [n \in AllNonces |-> 0]
    /\ observed = [c \in Codes |-> 0]
    /\ handed = [c \in Codes |-> 0]

\* Lines 314-357, called with the arguments of the call.
run_create_auth_tokens(p) ==
    /\ pc[p] = "create_auth_tokens"
    /\ Return(p, did[p],
              create_auth_tokens(SSO_JWT_VALIDATION, "device", call[p].arg.refresh_token,
                                 Unwrap(call[p].arg.access_token), now))
    /\ UNCHANGED <<shared, counters>>

\* Line 260, called with the identity token of the call.
run_decode_id_token(p) ==
    /\ pc[p] = "decode_id_token"
    /\ Return(p, did[p], decode_id_token(SSO_JWT_VALIDATION, call[p].arg.id_token, now))
    /\ UNCHANGED <<shared, counters>>

TokNext == \E p \in Procs : run_create_auth_tokens(p) \/ run_decode_id_token(p)

TokSpec == TokInit /\ [][TokNext]_vars

(* ============================ properties ============================== *)
NotFound == "Failed to retrieve user info from sso cache"
NonceMissing == "Failed to retrive nonce from db"
DeleteFailed == "Failed to delete nonce"
DiscoveryFailed == "Failed to discover OpenID provider"

\* The call that returned last and the one before it were both op(code).
Twice(op) == last.op = op /\ prev.op = op /\ last.code = prev.code

\* The entry a call read or inserted has not outlived its time to live at t.
StillCached(record, t) ==
    IsSome(record.did.entry) /\ t < Unwrap(record.did.entry).inserted + AC_TTL

(* C1: two exchange_code(c) calls in sequence, the first returning a
   UserInformation and the second made before the cached entry's time to live
   has elapsed: both together send at most one token-exchange request (the
   second sends none), and the second returns the UserInformation of the first. *)
C1_ExchangeTwiceAsksOnce ==
    (Twice("exchange_code") /\ prev.res.ok /\ StillCached(prev, last.returned))
        => /\ prev.did.token_reqs + last.did.token_reqs <= 1
           /\ last.did.token_reqs = 0
           /\ last.res.ok
           /\ Unwrap(last.res.val).email = Unwrap(prev.res.val).email
           /\ Unwrap(last.res.val).user_name = Unwrap(prev.res.val).user_name

\* The first call asked the provider and the second was answered from the cache.
C1_Witness ==
    /\ Twice("exchange_code")
    /\ prev.res.ok /\ prev.did.token_reqs = 1
    /\ last.res.ok /\ last.did.token_reqs = 0
    /\ last.res.val = prev.res.val

(* C2: after exchange_code(c) has cached an identity with nonce n, a first
   redeem(c) made while the entry is cached, which finds the record of n and
   whose delete does not fail, returns that identity and deletes the record of
   n, which has then been deleted exactly once; a second redeem(c) fails with
   the cache not-found error and deletes no nonce record. *)
C2_RedeemOnce ==
    /\ ( /\ prev.op = "exchange_code" /\ last.op = "redeem" /\ prev.code = last.code
         /\ prev.res.ok /\ StillCached(prev, last.returned)
         /\ last.did.found /\ last.res.err # DeleteFailed )
        => LET au == Unwrap(prev.did.entry).val
           IN /\ last.res = Ok(au)
              /\ last.did.deleted = Some(au.nonce)
              /\ deletions[au.nonce] = 1
              /\ au.nonce \notin sso_nonces
    /\ Twice("redeem")
        => /\ ~last.res.ok
           /\ last.res.err = NotFound
           /\ last.did.deleted = None

\* A redeem returned the identity and deleted its nonce; the next one failed.
C2_Witness ==
    /\ Twice("redeem")
    /\ prev.res.ok /\ IsSome(prev.did.deleted)
    /\ last.res.err = NotFound

(* C3: in every sequence of authorize_url, exchange_code and redeem calls, the
   record of a nonce n is deleted at most once, and a redeem returns an
   identity with nonce n only by deleting the record of n: none succeeds with
   n once n has been consumed. *)
C3_NonceConsumedOnce ==
    \A n \in AllNonces :
        /\ deletions[n] <= 1
        /\ redeemed[n] <= deletions[n]

\* n was consumed by a redeem, and a later redeem of an identity with n failed.
C3_Witness ==
    /\ last.op = "redeem" /\ last.did.hit
    /\ last.res.err = NonceMissing
    /\ redeemed[Unwrap(last.did.entry).val.nonce] = 1
    /\ deletions[Unwrap(last.did.entry).val.nonce] = 1

(* C4: for a code c, whatever the interleaving of concurrent redeem(c) calls,
   at most one of them gets the entry of c from AC_CACHE and at most one
   returns its AuthenticatedUser. *)
C4_SingleRedemption ==
    \A c \in Codes : observed[c] <= 1 /\ handed[c] <= 1

(* C5: an authorize_url call that returns a URL has saved exactly one nonce
   record, the one of the nonce it has just generated and put in the URL; a
   call that fails returns no URL, and when the provider client could not be
   obtained it has saved no nonce. *)
C5_AuthorizeUrlSavesNonce ==
    last.op = "authorize_url"
        => /\ last.res.ok
                => /\ IsSome(last.did.saved)
                   /\ Unwrap(last.did.saved) = AppNonces[generated]
                   /\ Unwrap(last.res.val).nonce = Unwrap(last.did.saved)
                   /\ Unwrap(last.did.saved) \in sso_nonces
           /\ ~last.res.ok
                => /\ last.res.val = None
                   /\ last.did.saved = None
           /\ last.res.err = DiscoveryFailed
                => last.did.saved = None

\* authorize_url returned a URL and the nonce of the URL is in the table.
C5_Witness ==
    /\ last.op = "authorize_url" /\ last.res.ok
    /\ Unwrap(last.res.val).nonce \in sso_nonces

(* C6, as claimed: at most one discovery request is ever sent. *)
C6_DiscoveryAtMostOnce == discoveries <= 1

(* C6, amended: a cached_client call that reads CLIENT_CACHE populated sends no
   discovery request, and no call sends more than one; so discovery requests
   come only from calls that read the cache before its first population. *)
C6_NoDiscoveryOncePopulated ==
    \A p \in Procs :
        /\ did[p].discovery <= 1
        /\ did[p].cc_seen => (did[p].discovery = 0 /\ pc[p] \notin {"get_client", "write_client"})

\* After a discovery, a call has read the populated cache and goes on with
\* the cached client.
C6_Witness ==
    \E p \in Procs :
        /\ did[p].cc_seen /\ did[p].discovery = 0
        /\ pc[p] \in {"authorize_url", "token_request", "refresh_request"}
        /\ discoveries = 1

(* C7: a failed discovery is not cached: the step in which cached_client
   returns the discovery error leaves CLIENT_CACHE as it was, a call that
   reads CLIENT_CACHE empty attempts discovery, and once a discovery has
   succeeded for a caller CLIENT_CACHE eventually is populated. *)
C7_FailedDiscoveryNotCached ==
    /\ [][\A p \in Procs :
            (pc[p] = "get_client" /\ pc'[p] = "idle") => CLIENT_CACHE' = CLIENT_CACHE]_vars
    /\ [][\A p \in Procs :
            (pc[p] = "cached_client" /\ pc'[p] # pc[p] /\ CLIENT_CACHE = None)
                => pc'[p] = "get_client"]_vars
    /\ \A p \in Procs : (pc[p] = "write_client") ~> IsSome(CLIENT_CACHE)

\* A discovery has failed, the cache is empty, and a later call has read it
\* empty and is about to attempt discovery again.
C7_Witness ==
    \E p \in Procs :
        /\ pc[p] = "get_client" /\ ~did[p].cc_seen
        /\ \A q \in Procs \ {p} : pc[q] = "idle"
        /\ discoveries = 1
        /\ CLIENT_CACHE = None

(* C8: an exchange_refresh_token call with stored refresh token r that returns
   claims returns refresh claims, never None; they carry the refresh token of
   the provider's response when it has one, and r when it has none. *)
C8_RefreshTokenRolled ==
    (last.op = "exchange_refresh_token" /\ last.res.ok)
        => LET refresh_claims == Unwrap(last.res.val).refresh_claims
           IN /\ IsSome(refresh_claims)
              /\ IsSome(last.did.response_rt)
                    => Unwrap(refresh_claims).refresh_token = last.did.response_rt
              /\ last.did.response_rt = None
                    => Unwrap(refresh_claims).refresh_token = last.arg.refresh_token

\* One refresh kept r, the provider sending no token; the next one got a new
\* token r' and returned it.
C8_Witness ==
    /\ Twice("exchange_refresh_token") /\ prev.res.ok /\ last.res.ok
    /\ prev.did.response_rt = None
    /\ Unwrap(Unwrap(prev.res.val).refresh_claims).refresh_token = prev.arg.refresh_token
    /\ IsSome(last.did.response_rt)
    /\ last.did.response_rt # last.arg.refresh_token
    /\ Unwrap(Unwrap(last.res.val).refresh_claims).refresh_token = last.did.response_rt

\* Whether a token decodes under the access/refresh policy at time t.
Decodable(tok, t) == decode_basic_token(SSO_JWT_VALIDATION, tok, t).ok

(* C9: create_auth_tokens with a decodable access token and a refresh token
   that does not decode returns claims, whose refresh claims have
   not-before = now, expiry = now + DEFAULT_REFRESH_VALIDITY and the raw
   refresh token; whether the refresh token decodes never decides between
   claims and error: the access token alone does. *)
C9_UndecodableRefreshToken ==
    last.op = "create_auth_tokens"
        => LET t == last.returned
               access_token == Unwrap(last.arg.access_token)
               refresh_token == last.arg.refresh_token
           IN /\ last.res.ok <=> Decodable(access_token, t)
              /\ ( /\ Decodable(access_token, t)
                   /\ IsSome(refresh_token)
                   /\ ~Decodable(Unwrap(refresh_token), t) )
                    => /\ last.res.ok
                       /\ Unwrap(last.res.val).refresh_claims =
                            Some([nbf |-> t, exp |-> t + DEFAULT_REFRESH_VALIDITY, sub |-> "Sso",
                                  device_token |-> "device",
                                  refresh_token |-> refresh_token])

\* Claims were returned for a refresh token that is no JWT.
C9_Witness ==
    /\ last.op = "create_auth_tokens" /\ last.res.ok
    /\ IsSome(last.arg.refresh_token)
    /\ ~Unwrap(last.arg.refresh_token).wf
    /\ Unwrap(Unwrap(last.res.val).refresh_claims).nbf = last.returned

\* The not-before the claimed order gives for the claims of a token at time t.
NotBeforeInOrder(tok, t) ==
    IF tok.nbf # None THEN Unwrap(tok.nbf)
    ELSE IF tok.iat # None THEN Unwrap(tok.iat)
    ELSE t

(* C10: the not-before taken from a decoded access or refresh token is always
   a time: the nbf claim when there is one, even with an iat claim, else the
   iat claim, else the time of the call. *)
C10_EffectiveNotBefore ==
    (last.op = "create_auth_tokens" /\ last.res.ok)
        => LET t == last.returned
               access_token == Unwrap(last.arg.access_token)
               refresh_token == last.arg.refresh_token
               claims == Unwrap(last.res.val)
           IN /\ claims.access_claims.nbf \in Int
              /\ claims.access_claims.nbf = NotBeforeInOrder(access_token, t)
              /\ (IsSome(refresh_token) /\ Decodable(Unwrap(refresh_token), t))
                    => Unwrap(claims.refresh_claims).nbf
                         = NotBeforeInOrder(Unwrap(refresh_token), t)

\* An access token with both claims gave its nbf, a refresh token with iat
\* alone gave its iat.
C10_Witness ==
    /\ last.op = "create_auth_tokens" /\ last.res.ok
    /\ IsSome(last.arg.refresh_token)
    /\ LET access_token == Unwrap(last.arg.access_token)
           refresh_token == Unwrap(last.arg.refresh_token)
           claims == Unwrap(last.res.val)
       IN /\ IsSome(access_token.nbf) /\ IsSome(access_token.iat)
          /\ access_token.nbf # access_token.iat
          /\ claims.access_claims.nbf = Unwrap(access_token.nbf)
          /\ refresh_token.nbf = None /\ IsSome(refresh_token.iat)
          /\ Unwrap(claims.refresh_claims).nbf = Unwrap(refresh_token.iat)

(* C11: once the time to live (10 minutes) of the entry that an
   exchange_code(c) call inserted or read at t0 has elapsed, with a single
   entry in the cache, the next call for c does not reach it: exchange_code(c)
   misses and sends a token request to the provider again, redeem(c) fails
   with the cache not-found error. *)
C11_EntryUnreachableAfterTtl ==
    ( /\ prev.op = "exchange_code" /\ prev.res.ok /\ IsSome(prev.did.entry)
      /\ last.code = prev.code
      /\ last.returned >= Unwrap(prev.did.entry).inserted + 10 * 60 )
        => /\ last.op = "exchange_code"
                => /\ ~last.did.hit
                   /\ last.did.client_calls = 1
                   /\ last.did.token_reqs = 1
           /\ last.op = "redeem"
                => /\ ~last.did.hit
                   /\ ~last.res.ok
                   /\ last.res.err = NotFound

\* An identity was cached, ten minutes passed, and the next exchange_code of
\* the code asked the provider again and cached the new identity.
C11_Witness ==
    /\ Twice("exchange_code") /\ prev.res.ok /\ last.res.ok
    /\ last.returned >= Unwrap(prev.did.entry).inserted + AC_TTL
    /\ ~last.did.hit /\ last.did.token_reqs = 1
    /\ Unwrap(last.did.entry).inserted = last.returned

\* What the active policy alone makes of a token: TRUE when it accepts it.
ActivePolicyAccepts(tok, validation, t) ==
    /\ tok.wf
    /\ validation.validate_signature => tok.sig
    /\ validation.validate_exp => tok.exp >= t - validation.leeway
    /\ (validation.validate_nbf /\ tok.nbf # None) => Unwrap(tok.nbf) <= t + validation.leeway
    /\ validation.validate_aud => tok.aud
    /\ validation.validate_iss => tok.iss

(* C12: the result of decode_id_token and of decode_basic_token is decided by
   the active policy alone, whether the signature-ignoring diagnostic decode
   of log_decode_debug succeeds or fails: a token the active policy accepts
   gives its claims, a token it rejects is rejected with the decode error,
   and no claim of a rejected token reaches the result. *)
C12_DebugDecodeDecidesNothing ==
    LET t == last.returned
        dec == SSO_JWT_VALIDATION
    IN /\ last.op = "create_auth_tokens"
            => LET access_token == Unwrap(last.arg.access_token)
                   refresh_token == last.arg.refresh_token
               IN /\ last.res.ok
                        <=> ActivePolicyAccepts(access_token, dec.access_validation, t)
                  /\ ~last.res.ok => last.res = Err(BasicTokenError)
                  /\ ( /\ last.res.ok /\ IsSome(refresh_token)
                       /\ ~ActivePolicyAccepts(Unwrap(refresh_token), dec.access_validation, t) )
                        => /\ Unwrap(Unwrap(last.res.val).refresh_claims).nbf = t
                           /\ Unwrap(Unwrap(last.res.val).refresh_claims).exp
                                = t + DEFAULT_REFRESH_VALIDITY
       /\ (last.op = "decode_id_token" /\ IsSome(last.arg.id_token))
            => LET id_token == Unwrap(last.arg.id_token)
               IN /\ last.res.ok
                        <=> /\ ActivePolicyAccepts(id_token, dec.id_validation, t)
                            /\ id_token.nonce # None
                  /\ ~last.res.ok => last.res = Err(IdTokenError)

\* A well-formed access token with a bad signature, which the diagnostic
\* decode reads, was rejected with the decode error.
C12_Witness ==
    /\ last.op = "create_auth_tokens"
    /\ ~Unwrap(last.arg.access_token).sig
    /\ log_decode_debug(SSO_JWT_VALIDATION, Unwrap(last.arg.access_token), last.returned)
    /\ last.res = Err(BasicTokenError)

(* C13: a redeem(c) call returns the AuthenticatedUser only when it found c in
   the cache, found the record of the identity's nonce and deleted it; when
   the record is missing or its deletion fails the call returns an error and
   no identity, hence no token. *)
C13_RedeemReleasesAfterBothSteps ==
    last.op = "redeem"
        => /\ last.res.ok
                => /\ last.did.hit /\ last.did.found
                   /\ last.res.val = Some(Unwrap(last.did.entry).val)
                   /\ last.did.deleted = Some(Unwrap(last.did.entry).val.nonce)
           /\ (last.did.hit /\ ~last.did.found) => last.res = Err(NonceMissing)
           /\ last.res.err = DeleteFailed
                => /\ last.did.hit /\ last.did.found /\ last.did.deleted = None
                   /\ last.res = Err(DeleteFailed)
           /\ ~last.res.ok => last.res.val = None

\* A redeem found the code and the nonce record, and the deletion failed.
C13_Witness ==
    /\ last.op = "redeem" /\ last.did.hit /\ last.did.found
    /\ last.res = Err(DeleteFailed)
    /\ Unwrap(last.did.entry).val.nonce \in sso_nonces

(* C14: when a redeem(c) call has returned, with the identity or with any
   error, c has no reachable entry in the cache; a call that got the entry
   has removed it, also when the nonce lookup or the deletion failed, so that
   the redeem(c) that follows a redeem(c) fails with the cache not-found
   error. *)
C14_CodeAbsentAfterRedeem ==
    /\ last.op = "redeem"
        => /\ CacheGet(last.code) = None
           /\ last.did.hit => AC_CACHE[last.code] = None
    /\ Twice("redeem") => last.res = Err(NotFound)

\* A redeem failed at the nonce step, and the retry did not find the code.
C14_Witness ==
    /\ Twice("redeem")
    /\ prev.did.hit /\ prev.res.err \in {NonceMissing, DeleteFailed}
    /\ last.res = Err(NotFound)
    /\ AC_CACHE[last.code] = None

(* C15: an exchange_code(c) call that finds c in the cache returns in that
   step the email and user_name of the cached identity; it has sent no token
   and no userinfo request, has not called cached_client and so has sent no
   discovery request, and leaves the code cache, the client cache and the
   nonce store as they were. *)
C15_CachedCodeAnsweredLocally ==
    [][\A p \in Procs :
        ( /\ pc[p] = "exchange_code" /\ pc'[p] # pc[p]
          /\ IsSome(CacheGet(call[p].code)) )
            => /\ pc'[p] = "idle"
               /\ last'.op = "exchange_code" /\ last'.code = call[p].code
               /\ last'.res = Ok([email |-> Unwrap(CacheGet(call[p].code)).email,
                                  user_name |-> Unwrap(CacheGet(call[p].code)).user_name])
               /\ last'.did.token_reqs = 0 /\ last'.did.userinfo_reqs = 0
               /\ last'.did.client_calls = 0 /\ last'.did.discovery = 0
               /\ discoveries' = discoveries
               /\ AC_CACHE' = AC_CACHE
               /\ CLIENT_CACHE' = CLIENT_CACHE
               /\ sso_nonces' = sso_nonces]_vars

\* An exchange_code was answered from the cache and the entry is still there.
C15_Witness ==
    /\ last.op = "exchange_code" /\ last.did.hit /\ last.res.ok
    /\ last.did.token_reqs = 0 /\ last.did.client_calls = 0
    /\ AC_CACHE[last.code] = last.did.entry
    /\ IsSome(CacheGet(last.code))

(* C16: an exchange_code call that missed the cache and came to resolve the
   email takes the identity token's email when it has one, also when userinfo
   has one too, else the email of userinfo; when neither has one the call
   fails with an error and stores no entry for the code. *)
C16_EmailResolutionOrder ==
    (last.op = "exchange_code" /\ IsSome(last.did.emails))
        => LET emails == Unwrap(last.did.emails)
           IN /\ ~last.did.hit
              /\ emails.id_token # None
                    => /\ last.res.ok
                       /\ Unwrap(last.res.val).email = Unwrap(emails.id_token)
                       /\ Unwrap(last.did.entry).val.email = Unwrap(emails.id_token)
              /\ (emails.id_token = None /\ emails.user_info # None)
                    => /\ last.res.ok
                       /\ Unwrap(last.res.val).email = Unwrap(emails.user_info)
                       /\ Unwrap(last.did.entry).val.email = Unwrap(emails.user_info)
              /\ (emails.id_token = None /\ emails.user_info = None)
                    => /\ last.res = Err(NoEmail)
                       /\ last.did.entry = None
                       /\ CacheGet(last.code) = None

\* Both had an email, different ones, and the identity token's was taken.
C16_Witness ==
    /\ last.op = "exchange_code" /\ last.res.ok /\ IsSome(last.did.emails)
    /\ IsSome(Unwrap(last.did.emails).id_token)
    /\ IsSome(Unwrap(last.did.emails).user_info)
    /\ Unwrap(last.did.emails).id_token # Unwrap(last.did.emails).user_info
    /\ Some(Unwrap(last.res.val).email) = Unwrap(last.did.emails).id_token

(* C17: exchange_refresh_token called with claims that carry no provider
   refresh token returns the missing-refresh-token error; it has not called
   cached_client and has sent no discovery and no token request. *)
C17_NothingToRefresh ==
    (last.op = "exchange_refresh_token" /\ last.arg.refresh_token = None)
        => /\ last.res = Err(RefreshTokenMissing)
           /\ last.did.client_calls = 0
           /\ last.did.discovery = 0
           /\ last.did.token_reqs = 0

\* The call without a refresh token failed before any discovery was made.
C17_Witness ==
    /\ last.op = "exchange_refresh_token" /\ last.arg.refresh_token = None
    /\ ~last.res.ok
    /\ discoveries = 0 /\ CLIENT_CACHE = None

(* C18: once CLIENT_CACHE holds a client it holds one in every later state,
   and a cached_client call that reads it from then on goes on with the
   cached client and sends no discovery request. *)
C18_ClientCacheStaysPopulated ==
    /\ [][IsSome(CLIENT_CACHE) => IsSome(CLIENT_CACHE')]_vars
    /\ [][\A p \in Procs :
            (pc[p] = "cached_client" /\ pc'[p] # pc[p] /\ IsSome(CLIENT_CACHE))
                => /\ pc'[p] \in {"authorize_url", "token_request", "refresh_request"}
                   /\ loc'[p].client = CLIENT_CACHE
                   /\ did'[p].discovery = 0
                   /\ discoveries' = discoveries
                   /\ CLIENT_CACHE' = CLIENT_CACHE]_vars

\* Two discoveries were made before the cache was populated (one failed, or
\* two first callers); a call that came later holds the cached client.
C18_Witness ==
    /\ IsSome(CLIENT_CACHE) /\ discoveries = 2
    /\ \E p \in Procs :
        /\ did[p].client_calls = 1 /\ did[p].cc_seen /\ did[p].discovery = 0
        /\ loc[p].client = CLIENT_CACHE
        /\ pc[p] = "token_request"

(* C19: an entry for code c comes into the cache only in the step in which an
   exchange_code(c) call returns its UserInformation, having obtained the
   client, exchanged the code, asked userinfo, decoded the identity token and
   resolved the email, and the entry holds what these steps gave; an
   exchange_code call that returns an error leaves the cache as it was. *)
C19_OnlyCompletedExchangeCaches ==
    /\ [][\A c \in Codes :
            (AC_CACHE'[c] # AC_CACHE[c] /\ IsSome(AC_CACHE'[c]))
                => \E p \in Procs :
                    /\ call[p].op = "exchange_code" /\ call[p].code = c
                    /\ pc[p] = "user_info" /\ pc'[p] = "idle"
                    /\ IsSome(loc[p].client)
                    /\ IsSome(loc[p].tr)
                    /\ last'.op = "exchange_code" /\ last'.code = c /\ last'.res.ok
                    /\ last'.did.client_calls = 1
                    /\ last'.did.token_reqs = 1
                    /\ last'.did.userinfo_reqs = 1
                    /\ IsSome(Unwrap(loc[p].tr).id_token)
                    /\ ActivePolicyAccepts(Unwrap(Unwrap(loc[p].tr).id_token),
                                           SSO_JWT_VALIDATION.id_validation, now)
                    /\ Some(Unwrap(AC_CACHE'[c]).val.nonce)
                            = Unwrap(Unwrap(loc[p].tr).id_token).nonce
                    /\ IsSome(last'.did.emails)
                    /\ Some(Unwrap(AC_CACHE'[c]).val.email)
                            \in {Unwrap(last'.did.emails).id_token,
                                 Unwrap(last'.did.emails).user_info}
                    /\ Unwrap(AC_CACHE'[c]).val.access_token = Unwrap(loc[p].tr).access_token]_vars
    /\ [][\A p \in Procs :
            ( /\ call[p].op = "exchange_code" /\ pc[p] # "idle" /\ pc'[p] = "idle"
              /\ ~last'.res.ok )
                => AC_CACHE' = AC_CACHE]_vars

\* The token exchange succeeded, the identity token did not decode, and the
\* code has no entry.
C19_Witness ==
    /\ last.op = "exchange_code" /\ last.res = Err(IdTokenError)
    /\ last.did.token_reqs = 1 /\ last.did.userinfo_reqs = 1
    /\ AC_CACHE[last.code] = None

\* Number of redeem calls that returned an identity.
SuccessfulRedeems ==
    redeemed[AppNonces[1]] + redeemed[AppNonces[2]] + redeemed[ForeignNonce]

(* C20: with calls made one after the other, a redeem returns an identity only
   by deleting the record of its nonce, a record that an authorize_url call
   which returned a URL had saved and that was still stored; so each issued
   nonce is redeemed at most once, redeem calls that returned an identity are
   never more than authorize_url calls that returned a URL, and an identity
   whose nonce authorize_url never issued is never redeemed. *)
C20_RedeemConsumesIssuedNonce ==
    /\ \A n \in AllNonces : redeemed[n] <= (IF n \in issued THEN 1 ELSE 0)
    /\ SuccessfulRedeems <= Cardinality(issued)
    /\ redeemed[ForeignNonce] = 0
    /\ (last.op = "redeem" /\ last.res.ok)
        => /\ Unwrap(last.res.val).nonce \in issued
           /\ last.did.deleted = Some(Unwrap(last.res.val).nonce)
           /\ Unwrap(last.res.val).nonce \notin sso_nonces

\* An issued nonce was redeemed; then an identity carrying a nonce that was
\* never issued was cached and its redeem failed at the nonce lookup.
C20_Witness ==
    /\ SuccessfulRedeems = 1
    /\ last.op = "redeem" /\ last.did.hit
    /\ Unwrap(last.did.entry).val.nonce = ForeignNonce
    /\ last.res = Err(NonceMissing)

====
